---- MODULE Spec2Model ----
\* A model of pipx's `uninject` command (src/src/pipx/commands/uninject.py):
\* the environment (installed packages, metadata record, executables, shared
\* bin directory) is the state, and one uninject command runs step by step,
\* one step per installer invocation.
EXTENDS Integers, Sequences, FiniteSets, TLC

\* ------------------------------------------------------------------ bounds

\* Longest list of targets given to one uninject command.
MaxDeps == 2
\* Longest list of paths given to remove_app_paths.
MaxPaths == 2

\* ------------------------------------------------------------------- names

\* Names are sequences of characters, so that canonicalize_name has something
\* to do.
MainPkg == <<"m">>
PkgA == <<"a">>
PkgB == <<"b", "-", "x">>
LibL == <<"l">>
LibL2 == <<"l", "2">>

Packages == {MainPkg, PkgA, PkgB, LibL, LibL2}

\* The target strings a user may type: the main package in capitals, the
\* injected packages, one of them in two spellings, and a library.
RawNames == {<<"M">>, PkgA, PkgB, <<"B", "_", ".", "x">>, LibL}

AppNames == {"tool", "tool2"}

None == <<"None">>

EXIT_CODE_OK == "EXIT_CODE_OK"
EXIT_CODE_UNINJECT_ERROR == "EXIT_CODE_UNINJECT_ERROR"

\* ------------------------------------------------------- canonicalize_name

Separators == {"-", "_", "."}

Lower(c) ==
    CASE c = "A" -> "a"
      [] c = "B" -> "b"
      [] c = "M" -> "m"
      [] c = "L" -> "l"
      [] c = "X" -> "x"
      [] OTHER -> c

\* packaging.utils.canonicalize_name: re.sub(r"[-_.]+", "-", name).lower()
canonicalize_name(name) ==
    LET F[k \in 0..Len(name)] ==
            IF k = 0 THEN <<>>
            ELSE IF name[k] \in Separators
                 THEN IF k > 1 /\ name[k - 1] \in Separators
                      THEN F[k - 1]
                      ELSE Append(F[k - 1], "-")
                 ELSE Append(F[k - 1], Lower(name[k]))
    IN  F[Len(name)]

\* ------------------------------------------------------------------- state

VARIABLES
    venv_dir,                   \* "missing" | "empty" | "present"
    requires,                   \* the installer's dependency graph
    installed,                  \* packages the installer has in the venv
    main_package,               \* pipx_metadata.main_package
    injected_packages,          \* pipx_metadata.injected_packages
    venv_bin,                   \* executables of each package inside the venv
    local_bin,                  \* names present in the shared bin directory
    pc,                         \* position of the running command
    dependencies, leave_deps,   \* arguments of uninject
    i, all_success,             \* locals of uninject
    exit_code, raised,          \* how uninject ended
    package_name, need_app_uninstall, new_app_paths,
    orig_not_required_packages, deps_of_uninstalled,  \* locals of uninject_dep
    called,                     \* the targets uninject_dep was called with
    results,                    \* what each uninject_dep call returned
    uninstall_log,              \* the uninstall_package calls of the command
    snapshots,                  \* list_installed_packages calls of this call
    call_pre,                   \* the state when the current call began
    cmd_pre,                    \* the state when the command began
    rap,                        \* the last remove_app_paths call
    cli,                        \* the running or last call of main.py
    userpath,                   \* the PATH of this shell and of a new one
    ensured,                    \* the last ensure_path call
    emoji,                      \* the last call of emojis.py
    pipx_paths                  \* the last ensure_pipx_paths call

world == <<venv_dir, requires, installed, main_package, injected_packages,
           venv_bin, local_bin>>
command == <<pc, dependencies, leave_deps, i, all_success, exit_code, raised>>
locals == <<package_name, need_app_uninstall, new_app_paths,
            orig_not_required_packages, deps_of_uninstalled>>
history == <<called, results, uninstall_log, snapshots, call_pre, cmd_pre>>
aside == <<cli, userpath, ensured, emoji, pipx_paths>>
vars == <<world, command, locals, history, rap, aside>>

\* ------------------------------------------------- the Environment Handle

\* Venv.package_metadata: the injected packages' records and the main one's.
package_metadata ==
    [p \in DOMAIN injected_packages \cup
              (IF main_package.package = None THEN {} ELSE {main_package.package})
        |-> IF p \in DOMAIN injected_packages THEN injected_packages[p]
            ELSE main_package]

\* Venv.list_installed_packages: with not_required, the installer's leaf set:
\* the installed packages that no other installed package requires.
list_installed_packages(inst, not_required) ==
    IF not_required
    THEN {p \in inst : \A q \in inst \ {p} : p \notin requires[q]}
    ELSE inst

\* Venv.uninstall_package, when the installer succeeds: the package and its
\* executables are gone, and an injected package's record is popped.
UninstalledFrom(inst, package) == inst \ {package}

BinWithout(bin, package) == [bin EXCEPT ![package] = {}]

\* A variant that never pops the record of an uninstalled package.
MetadataWithout_Kept(inj, package, was_injected) == inj

MetadataWithout(inj, package, was_injected) ==
    IF was_injected
    THEN [p \in DOMAIN inj \ {package} |-> inj[p]]
    ELSE inj

\* A variant in which uninstalling the main package without was_injected
\* clears its record.
MainPackageAfter_Cleared(main, package, was_injected) ==
    IF ~was_injected /\ package = main.package
    THEN [package |-> None, apps |-> {}, include_apps |-> FALSE]
    ELSE main

\* Venv.uninstall_package leaves the main package's record alone: only the
\* destruction of the whole environment clears it.
MainPackageAfter(main, package, was_injected) == main

\* _get_package_bin_dir_app_paths: the shared-bin paths named after the
\* executables that the package's files put into the venv.
GetPackageBinDirAppPaths(package_info) == venv_bin[package_info.package]

\* ------------------------------------------------------- uninject.py

\* os.unlink on a shared-bin path: the entry goes, or FileNotFoundError.
unlink(bin, app_path) ==
    IF app_path \in bin
    THEN [bin |-> bin \ {app_path}, error |-> "none"]
    ELSE [bin |-> bin, error |-> "FileNotFoundError"]

\* A variant without the check against the recorded apps.
get_include_app_paths_NoFilter(name) ==
    GetPackageBinDirAppPaths(package_metadata[name])

\* get_include_app_paths: of the package's shared-bin paths, those whose name
\* is in the apps list of its metadata.
get_include_app_paths(name) ==
    LET package_info == package_metadata[name]
        bin_dir_app_paths == GetPackageBinDirAppPaths(package_info)
    IN  {app_path \in bin_dir_app_paths : app_path \in package_info.apps}

\* A variant that forgets the main-package check and looks the name up in
\* venv.package_metadata, which holds the main package too.
EarlyReturn_MainUnchecked(name) ==
    IF name \notin DOMAIN package_metadata
    THEN [returns |-> TRUE, value |-> FALSE, warning |-> "not in venv"]
    ELSE [returns |-> FALSE, value |-> TRUE, warning |-> "none"]

\* A variant that reports a skipped target as a success.
EarlyReturn_SkipTrue(name) ==
    IF name = main_package.package
    THEN [returns |-> TRUE, value |-> FALSE, warning |-> "main package"]
    ELSE IF name \notin DOMAIN injected_packages
    THEN [returns |-> TRUE, value |-> TRUE, warning |-> "not in venv"]
    ELSE [returns |-> FALSE, value |-> TRUE, warning |-> "none"]

\* uninject_dep, lines 79-93: the two early returns.
EarlyReturn(name) ==
    IF name = main_package.package
    THEN [returns |-> TRUE, value |-> FALSE, warning |-> "main package"]
    ELSE IF name \notin DOMAIN injected_packages
    THEN [returns |-> TRUE, value |-> FALSE, warning |-> "not in venv"]
    ELSE [returns |-> FALSE, value |-> TRUE, warning |-> "none"]

\* A variant with the set difference the wrong way round.
DepsOfUninstalled_Swapped(new_not_required_packages, orig) ==
    orig \ new_not_required_packages

\* A variant that goes on to the packages the orphans alone required.
DepsOfUninstalled_Repeated(new_not_required_packages, orig) ==
    LET first == new_not_required_packages \ orig
        inst == installed \ {package_name}
    IN  first \cup
        {q \in inst \ first :
            /\ \E r \in first : q \in requires[r]
            /\ \A r \in inst \ {q} : q \in requires[r] => r \in first}

\* uninject_dep, line 109.
DepsOfUninstalled(new_not_required_packages, orig) ==
    new_not_required_packages \ orig

\* uninject_dep, lines 119-125: unlink every owned path, a missing one is
\* only logged.
RECURSIVE UnlinkAll(_, _)
UnlinkAll(bin, app_paths) ==
    IF app_paths = {} THEN bin
    ELSE LET app_path == CHOOSE x \in app_paths : TRUE
         IN  UnlinkAll(unlink(bin, app_path).bin, app_paths \ {app_path})

\* A variant that does not catch FileNotFoundError.
RECURSIVE remove_app_paths_NoCatch(_, _)
remove_app_paths_NoCatch(bin, app_paths) ==
    IF app_paths = <<>> THEN [bin |-> bin, raised |-> "none"]
    ELSE LET r == unlink(bin, Head(app_paths))
         IN  IF r.error = "none"
             THEN remove_app_paths_NoCatch(r.bin, Tail(app_paths))
             ELSE [bin |-> r.bin, raised |-> r.error]

\* remove_app_paths, lines 156-161, over a list of paths.
RECURSIVE remove_app_paths(_, _)
remove_app_paths(bin, app_paths) ==
    IF app_paths = <<>> THEN [bin |-> bin, raised |-> "none"]
    ELSE LET r == unlink(bin, Head(app_paths))
         IN  IF r.error \in {"none", "FileNotFoundError"}
             THEN remove_app_paths(r.bin, Tail(app_paths))
             ELSE [bin |-> r.bin, raised |-> r.error]

\* uninject, line 207.
ExitCodeOf(success) ==
    IF success THEN EXIT_CODE_OK ELSE EXIT_CODE_UNINJECT_ERROR

\* ------------------------------------------------------------ initial states

\* The requirements of the injected packages on the libraries, and those
\* between the packages of the record.
LibraryEdges == {<<PkgA, LibL>>, <<PkgB, LibL>>, <<LibL, LibL2>>}

PackageEdges == {<<PkgA, MainPkg>>, <<PkgA, PkgB>>}

\* The dependency graphs: any choice among the library requirements, and the
\* default ones with any choice among the package requirements.
CandidateEdges ==
    (SUBSET LibraryEdges)
        \cup {{<<PkgA, LibL>>, <<LibL, LibL2>>} \cup edges :
                  edges \in SUBSET PackageEdges}

GraphOf(edges) == [p \in Packages |-> {q \in Packages : <<p, q>> \in edges}]

DefaultGraph == GraphOf({<<PkgA, LibL>>, <<LibL, LibL2>>})

\* What the installer installs for a set of requested packages.
RECURSIVE Closure(_, _)
Closure(roots, req) ==
    LET next == roots \cup UNION {req[p] : p \in roots}
    IN  IF next = roots THEN roots ELSE Closure(next, req)

PackageInfo(package, apps, include_apps) ==
    [package |-> package, apps |-> apps, include_apps |-> include_apps]

MainInfo == PackageInfo(MainPkg, {}, TRUE)
NoMainInfo == PackageInfo(None, {}, FALSE)

\* The executables each package's files put into the venv: PkgB ships a stray
\* `tool` next to its `tool2`.
DefaultVenvBin ==
    [p \in Packages |-> IF p = PkgA THEN {"tool"}
                        ELSE IF p = PkgB THEN {"tool", "tool2"}
                        ELSE {}]

Injected(apps_a, inc_a, apps_b, inc_b) ==
    [p \in {PkgA, PkgB} |-> IF p = PkgA THEN PackageInfo(PkgA, apps_a, inc_a)
                            ELSE PackageInfo(PkgB, apps_b, inc_b)]

DefaultInjected == Injected({"tool"}, TRUE, {"tool2"}, TRUE)

NoPre == [installed |-> {}, main_package |-> NoMainInfo,
          injected_packages |-> <<>>, venv_bin |-> [p \in Packages |-> {}],
          local_bin |-> {}, nlog |-> 0]
NoRap == [calls |-> 0, paths |-> <<>>, first |-> {}, before |-> {},
          after |-> {}, raised |-> "none"]

\* No call of main.py, ensure_path.py or emojis.py is under way.
NoOutcome == [raised |-> "none", returned |-> "none"]
NoCli == [pc |-> "idle", fn |-> "none", command |-> "none",
          venv_dir |-> "None", venv_args |-> FALSE, url |-> FALSE,
          interrupt |-> FALSE, outcome |-> NoOutcome, reached |-> FALSE,
          component |-> "none", calls |-> 0, raised |-> "none",
          returned |-> "none", stderr |-> 0, cursor |-> "shown",
          propagated |-> FALSE]
NoUserpath == [current |-> {}, new |-> {}]
NoEnsured == [calls |-> 0, location |-> "none", force |-> FALSE,
              before |-> NoUserpath, appended |-> <<>>, message |-> "none",
              path_added |-> FALSE, need_shell_restart |-> FALSE]
NoEmoji == [fn |-> "none", USE_EMOJI |-> <<"unset">>, encoding |-> "none",
            val |-> <<>>, raised |-> "none", returned |-> "none"]
NoPipxPaths == [calls |-> 0, force |-> FALSE, pipx_user_bin_path |-> "None",
                before |-> NoUserpath, results |-> <<>>,
                path_added |-> FALSE, need_shell_restart |-> FALSE,
                messages |-> {}, returned |-> "none"]

AsideIdle ==
    /\ cli = NoCli
    /\ userpath = NoUserpath
    /\ ensured = NoEnsured
    /\ emoji = NoEmoji
    /\ pipx_paths = NoPipxPaths

Idle ==
    /\ pc = "idle"
    /\ dependencies = <<>> /\ leave_deps = FALSE
    /\ i = 0 /\ all_success = TRUE
    /\ exit_code = "none" /\ raised = "none"
    /\ package_name = None /\ need_app_uninstall = FALSE
    /\ new_app_paths = {} /\ orig_not_required_packages = {}
    /\ deps_of_uninstalled = {}
    /\ called = <<>>
    /\ results = <<>> /\ uninstall_log = <<>> /\ snapshots = 0
    /\ call_pre = NoPre /\ cmd_pre = NoPre

\* Environments with a main package and two injected ones, over every
\* dependency graph.
InitDeps ==
    /\ venv_dir = "present"
    /\ requires \in {GraphOf(e) : e \in CandidateEdges}
    /\ main_package = MainInfo
    /\ injected_packages = DefaultInjected
    /\ local_bin = AppNames

\* The same, over the app metadata and the shared bin directory.
InitApps ==
    /\ venv_dir = "present"
    /\ requires = DefaultGraph
    /\ main_package = MainInfo
    /\ \E apps_a \in {{}, {"tool"}}, apps_b \in {{"tool2"}, {"tool", "tool2"}},
          inc_a \in BOOLEAN, inc_b \in BOOLEAN :
            injected_packages = Injected(apps_a, inc_a, apps_b, inc_b)
    /\ local_bin \in SUBSET AppNames

\* An environment of a pipx older than the metadata file.
InitLegacy ==
    /\ venv_dir = "present"
    /\ requires = DefaultGraph
    /\ main_package = NoMainInfo
    /\ injected_packages = <<>>
    /\ local_bin = AppNames

InitPresent ==
    /\ InitDeps \/ InitApps \/ InitLegacy
    /\ installed = Closure({MainPkg, PkgA, PkgB}, requires)
    /\ venv_bin = DefaultVenvBin

\* No environment directory, or an empty one.
InitMissing ==
    /\ venv_dir \in {"missing", "empty"}
    /\ requires = DefaultGraph
    /\ installed = {}
    /\ main_package = NoMainInfo
    /\ injected_packages = <<>>
    /\ venv_bin = [p \in Packages |-> {}]
    /\ local_bin = AppNames

Init ==
    /\ InitPresent \/ InitMissing
    /\ Idle
    /\ rap = NoRap
    /\ AsideIdle

\* ------------------------------------------------------------------ actions

DepLists == UNION {[1..n -> RawNames] : n \in 0..MaxDeps}

PathLists == UNION {[1..n -> AppNames] : n \in 0..MaxPaths}

Snapshot == [installed |-> installed, main_package |-> main_package,
             injected_packages |-> injected_packages, venv_bin |-> venv_bin,
             local_bin |-> local_bin, nlog |-> Len(uninstall_log)]

\* A variant that cleans the dependencies whatever leave_deps says.
CleansDeps_Always == TRUE

\* uninject_dep, lines 99 and 105: `if not leave_deps`.
CleansDeps == ~leave_deps

\* uninject_dep, line 100: the leaf-set snapshot before the uninstall.
OrigNotRequiredPackages(inst) == list_installed_packages(inst, TRUE)

\* A variant that lists every installed package.
NewNotRequiredPackages_All(inst) == list_installed_packages(inst, FALSE)

\* uninject_dep, line 106: the leaf-set snapshot after the uninstall.
NewNotRequiredPackages(inst) == list_installed_packages(inst, TRUE)

\* A variant that leaves the loop at the first failed target.
LoopEnds_OnFailure == i > Len(dependencies) \/ ~all_success

\* uninject, line 202: the loop runs until the list is exhausted.
LoopEnds == i > Len(dependencies)

\* A variant that assigns instead of accumulating.
Accumulate_Last(success, returned) == returned

\* uninject, line 203: all_success &= uninject_dep(...).
Accumulate(success, returned) == success /\ returned

\* A variant that only asks whether the directory exists.
VenvDirMissing_ExistsOnly == venv_dir = "missing"

\* uninject, line 186: not venv_dir.exists() or not any(venv_dir.iterdir()).
VenvDirMissing == venv_dir # "present"

\* A variant that lets an environment without metadata through.
MetadataMissing_Never == FALSE

\* uninject, line 191: not venv.package_metadata.
MetadataMissing == DOMAIN package_metadata = {}

\* uninject, lines 186-201: the environment and its metadata are checked, then
\* the loop over the targets begins.
Uninject(deps, ld) ==
    /\ pc = "idle"
    /\ dependencies' = deps
    /\ leave_deps' = ld
    /\ cmd_pre' = Snapshot
    /\ IF VenvDirMissing
       THEN /\ raised' = "does not exist"
            /\ pc' = "done"
            /\ i' = i
       ELSE IF MetadataMissing
       THEN /\ raised' = "missing metadata"
            /\ pc' = "done"
            /\ i' = i
       ELSE /\ raised' = raised
            /\ pc' = "loop"
            /\ i' = 1
    /\ all_success' = TRUE
    /\ UNCHANGED <<world, exit_code, locals, called, results, uninstall_log,
                   snapshots, call_pre, rap, aside>>

\* A variant that never removes the apps.
NeedAppUninstall_Never(name) == FALSE

\* A variant that removes the apps whatever the record says.
NeedAppUninstall_Always(name) == TRUE

\* uninject_dep, line 95: the package's include_apps flag.
NeedAppUninstall(name) == package_metadata[name].include_apps

\* uninject, lines 202-205, and uninject_dep, lines 77-101: the next target is
\* canonicalized and either rejected (the call returns False) or prepared for
\* its uninstall.
UninjectDepCall ==
    /\ pc = "loop"
    /\ ~LoopEnds
    /\ called' = Append(called, dependencies[i])
    /\ LET name == canonicalize_name(dependencies[i])
           early == EarlyReturn(name)
       IN  /\ package_name' = name
           /\ call_pre' = Snapshot
           /\ IF early.returns
              THEN /\ results' = Append(results, early.value)
                   /\ all_success' = Accumulate(all_success, early.value)
                   /\ i' = i + 1
                   /\ pc' = "loop"
                   /\ snapshots' = 0
                   /\ UNCHANGED <<need_app_uninstall, new_app_paths,
                                  orig_not_required_packages>>
              ELSE /\ need_app_uninstall' = NeedAppUninstall(name)
                   /\ new_app_paths' = get_include_app_paths(name)
                   /\ orig_not_required_packages' =
                        IF CleansDeps
                        THEN OrigNotRequiredPackages(installed)
                        ELSE {}
                   /\ snapshots' = IF CleansDeps THEN 1 ELSE 0
                   /\ pc' = "uninstall"
                   /\ UNCHANGED <<results, all_success, i>>
    /\ deps_of_uninstalled' = {}
    /\ UNCHANGED <<world, dependencies, leave_deps, exit_code, raised,
                   uninstall_log, cmd_pre, rap, aside>>

LogEntry(package, was_injected, ok) ==
    [package |-> package, was_injected |-> was_injected, ok |-> ok]

\* uninject_dep, lines 103-111: the installer removes the target, its record
\* is popped, and the packages it orphaned are worked out.
UninstallTargetOk ==
    /\ pc = "uninstall"
    /\ LET inst == UninstalledFrom(installed, package_name)
           deps == IF CleansDeps
                   THEN DepsOfUninstalled(NewNotRequiredPackages(inst),
                                          orig_not_required_packages)
                   ELSE {}
       IN  /\ installed' = inst
           /\ deps_of_uninstalled' = deps
           /\ pc' = IF deps = {} THEN "apps" ELSE "deps"
    /\ venv_bin' = BinWithout(venv_bin, package_name)
    /\ injected_packages' = MetadataWithout(injected_packages, package_name, TRUE)
    /\ main_package' = MainPackageAfter(main_package, package_name, TRUE)
    /\ uninstall_log' = Append(uninstall_log, LogEntry(package_name, TRUE, TRUE))
    /\ snapshots' = IF CleansDeps THEN snapshots + 1 ELSE snapshots
    /\ UNCHANGED <<venv_dir, requires, local_bin, dependencies,
                   leave_deps, i, all_success, exit_code, raised, package_name,
                   need_app_uninstall, new_app_paths,
                   orig_not_required_packages, called, results, call_pre,
                   cmd_pre, rap, aside>>

\* Venv.uninstall_package raises when the installer fails; neither uninject_dep
\* nor uninject catches it.
InstallerFailure(package, was_injected) ==
    /\ uninstall_log' = Append(uninstall_log, LogEntry(package, was_injected, FALSE))
    /\ raised' = "InstallerFailure"
    /\ pc' = "done"
    /\ UNCHANGED <<world, dependencies, leave_deps, i, all_success, exit_code,
                   locals, called, results, snapshots, call_pre, cmd_pre,
                   rap, aside>>

\* uninject_dep, line 103, the installer failing.
UninstallTargetFails ==
    /\ pc = "uninstall"
    /\ InstallerFailure(package_name, TRUE)

\* A variant that uninstalls the orphaned dependencies as injected packages.
DepWasInjected_True == TRUE

\* uninject_dep, line 113: the orphaned dependencies are uninstalled with
\* was_injected=False.
DepWasInjected == FALSE

\* uninject_dep, lines 112-113: one orphaned dependency is uninstalled.
UninstallDepOk ==
    /\ pc = "deps"
    /\ \E dep_package_name \in deps_of_uninstalled :
        /\ installed' = UninstalledFrom(installed, dep_package_name)
        /\ venv_bin' = BinWithout(venv_bin, dep_package_name)
        /\ injected_packages' =
             MetadataWithout(injected_packages, dep_package_name,
                             DepWasInjected)
        /\ main_package' =
             MainPackageAfter(main_package, dep_package_name, DepWasInjected)
        /\ uninstall_log' =
             Append(uninstall_log,
                    LogEntry(dep_package_name, DepWasInjected, TRUE))
        /\ deps_of_uninstalled' = deps_of_uninstalled \ {dep_package_name}
        /\ pc' = IF deps_of_uninstalled = {dep_package_name}
                 THEN "apps" ELSE "deps"
    /\ UNCHANGED <<venv_dir, requires, local_bin, dependencies,
                   leave_deps, i, all_success, exit_code, raised, package_name,
                   need_app_uninstall, new_app_paths,
                   orig_not_required_packages, called, results, snapshots,
                   call_pre, cmd_pre, rap, aside>>

\* uninject_dep, line 113, the installer failing.
UninstallDepFails ==
    /\ pc = "deps"
    /\ \E dep_package_name \in deps_of_uninstalled :
        InstallerFailure(dep_package_name, DepWasInjected)

\* A variant that works the app paths out again after the uninstall.
AppPathsToRemove_Recomputed ==
    IF package_name \in DOMAIN package_metadata
    THEN get_include_app_paths(package_name)
    ELSE {}

\* uninject_dep, line 120: the loop runs over new_app_paths as read at line 97.
AppPathsToRemove == new_app_paths

\* uninject_dep, lines 119-130: the owned app paths are unlinked if the
\* package was injected with its apps, and the call returns True.
RemoveApps ==
    /\ pc = "apps"
    /\ local_bin' = IF need_app_uninstall
                    THEN UnlinkAll(local_bin, AppPathsToRemove)
                    ELSE local_bin
    /\ results' = Append(results, TRUE)
    /\ all_success' = Accumulate(all_success, TRUE)
    /\ i' = i + 1
    /\ pc' = "loop"
    /\ UNCHANGED <<venv_dir, requires, installed, main_package,
                   injected_packages, venv_bin, dependencies, leave_deps,
                   exit_code, raised, locals, called, uninstall_log, snapshots,
                   call_pre, cmd_pre, rap, aside>>

\* uninject, line 207.
Finish ==
    /\ pc = "loop"
    /\ LoopEnds
    /\ exit_code' = ExitCodeOf(all_success)
    /\ pc' = "done"
    /\ UNCHANGED <<world, dependencies, leave_deps, i, all_success, raised,
                   locals, history, rap, aside>>

\* The command is over; the environment stays as it left it.
Return ==
    /\ pc = "done"
    /\ pc' = "idle"
    /\ dependencies' = <<>> /\ leave_deps' = FALSE
    /\ i' = 0 /\ all_success' = TRUE
    /\ exit_code' = "none" /\ raised' = "none"
    /\ package_name' = None /\ need_app_uninstall' = FALSE
    /\ new_app_paths' = {} /\ orig_not_required_packages' = {}
    /\ deps_of_uninstalled' = {}
    /\ called' = <<>>
    /\ results' = <<>> /\ uninstall_log' = <<>> /\ snapshots' = 0
    /\ call_pre' = NoPre /\ cmd_pre' = NoPre
    /\ UNCHANGED <<world, rap, aside>>

Next ==
    \/ \E deps \in DepLists, ld \in BOOLEAN : Uninject(deps, ld)
    \/ UninjectDepCall
    \/ UninstallTargetOk
    \/ UninstallTargetFails
    \/ UninstallDepOk
    \/ UninstallDepFails
    \/ RemoveApps
    \/ Finish
    \/ Return

Spec == Init /\ [][Next]_vars

\* Target strings that differ from a package's recorded name in casing, in
\* separators or by a version qualifier, next to the recorded names.
Spellings ==
    {PkgA, <<"A">>, <<"a", "=", "=", "1">>, <<"A", ">", "=", "1">>,
     PkgB, <<"B", "_", ".", "x">>, <<"b", "-", "x", "=", "=", "1">>}

\* uninject, lines 164-207, called with one target in any of the spellings.
NextSpellings ==
    \/ \E name \in Spellings, ld \in BOOLEAN : Uninject(<<name>>, ld)
    \/ UninjectDepCall
    \/ UninstallTargetOk
    \/ UninstallTargetFails
    \/ UninstallDepOk
    \/ UninstallDepFails
    \/ RemoveApps
    \/ Finish
    \/ Return

SpecSpellings == Init /\ [][NextSpellings]_vars

\* remove_app_paths, lines 150-161, called on a list of shared-bin paths. The
\* record keeps the directory before the first call of a run of calls with the
\* same list, and before and after the latest one.
RemoveAppPathsCall(app_paths) ==
    /\ pc = "idle"
    /\ LET r == remove_app_paths(local_bin, app_paths)
           again == rap.calls > 0 /\ rap.paths = app_paths
       IN  /\ local_bin' = r.bin
           /\ rap' = [calls |-> IF again THEN 2 ELSE 1,
                      paths |-> app_paths,
                      first |-> IF again THEN rap.first ELSE local_bin,
                      before |-> local_bin,
                      after |-> r.bin,
                      raised |-> r.raised]
    /\ UNCHANGED <<venv_dir, requires, installed, main_package,
                   injected_packages, venv_bin, command, locals, history,
                   aside>>

NextRemoveAppPaths == \E app_paths \in PathLists : RemoveAppPathsCall(app_paths)

SpecRemoveAppPaths == Init /\ [][NextRemoveAppPaths]_vars

\* ------------------------------------------------------------------ main.py

\* The environment as the other modules find it: nothing of uninject runs.
Quiescent ==
    /\ venv_dir = "present"
    /\ requires = DefaultGraph
    /\ installed = Closure({MainPkg, PkgA, PkgB}, requires)
    /\ main_package = MainInfo
    /\ injected_packages = DefaultInjected
    /\ venv_bin = DefaultVenvBin
    /\ local_bin = AppNames
    /\ Idle
    /\ rap = NoRap

\* The commands of the claim, and `run`, which get_command_parser adds too.
ClaimedCommands ==
    {"install", "inject", "uninject", "upgrade", "upgrade-all", "list",
     "uninstall", "uninstall-all", "reinstall", "reinstall-all", "runpip",
     "ensurepath", "completions", "environment"}

RegisteredCommands == ClaimedCommands \cup {"run"}

Commands == RegisteredCommands \cup {"bogus"}

\* add_pip_venv_args: the dests it declares.
PipVenvDests == {"system_site_packages", "index_url", "editable", "pip_args"}

\* The dests that the _add_ function of each command declares.
Dests(command_name) ==
    CASE command_name = "install" ->
           {"package_spec", "python", "include_deps", "include_deps_verify",
            "system_site", "suffix", "force", "specific_install",
            "index_url", "editable", "global_install", "interactive",
            "allow_global", "site_packages", "use_sys_executable",
            "pip_args", "verbose", "run", "install_venv",
            "only_install_venv"} \cup PipVenvDests
      [] command_name = "inject" ->
           {"package", "dependencies", "include_apps", "include_deps",
            "force", "verbose"} \cup PipVenvDests
      [] command_name = "uninject" ->
           {"package", "dependencies", "leave_deps", "verbose"}
      [] command_name = "upgrade" ->
           {"package", "include_injected", "force", "verbose"}
             \cup PipVenvDests
      [] command_name = "upgrade-all" ->
           {"include_injected", "skip", "force", "verbose"}
      [] command_name = "uninstall" -> {"package", "verbose"}
      [] command_name = "uninstall-all" -> {"verbose"}
      [] command_name = "reinstall" -> {"package", "python", "verbose"}
      [] command_name = "reinstall-all" -> {"python", "skip", "verbose"}
      [] command_name = "list" ->
           {"include_injected", "json", "short", "verbose"}
      [] command_name = "run" ->
           {"no_cache", "app_with_args", "path", "pypackages", "spec",
            "verbose", "python", "subparser"} \cup PipVenvDests
      [] command_name = "runpip" -> {"package", "pipargs", "verbose"}
      [] command_name = "ensurepath" -> {"force"}
      [] command_name = "environment" -> {"value"}
      [] OTHER -> {}

\* vars(args) of a parsed command line: the sub-parser's dests, the
\* sub-parsers' own dest and --version.
Namespace(command_name) == Dests(command_name) \cup {"command", "version"}

\* The named parameters of run_command; a keyword with one of these names is
\* bound to the parameter and never lands in kwargs.
ParamNames == {"command", "venv_dir", "pip_args", "verbose"}

\* The keywords run_pipx_command passes besides vars(args).
PassedKeywords == {"venv_container", "skip_list"}

\* kwargs of a call of run_command that passes what run_pipx_command passes,
\* and venv_args when the caller adds it.
KwargsOf(command_name, venv_args) ==
    ((Namespace(command_name) \cup PassedKeywords) \ ParamNames)
        \cup (IF venv_args THEN {"venv_args"} ELSE {})

\* What a component does when called: it returns an exit code or raises.
ComponentOutcomes ==
    {[raised |-> "none", returned |-> code] : code \in {"0", "1"}}
        \cup {[raised |-> kind, returned |-> "none"] :
                 kind \in {"PipxError", "Exception"}}

Raise(kind) ==
    [component |-> "none", calls |-> 0, raised |-> kind, returned |-> "none"]

\* A branch of run_command: the kwargs lookups are evaluated, then the
\* component is called and its exit code returned.
ComponentCall(name, needed, kwargs, outcome) ==
    IF ~(needed \subseteq kwargs)
    THEN Raise("KeyError")
    ELSE [component |-> name, calls |-> 1, raised |-> outcome.raised,
          returned |-> outcome.returned]

\* run_command, lines 203-326.
run_command(command_name, venv, kwargs, outcome) ==
    CASE command_name = "run" ->
           LET called_run ==
                 ComponentCall("run",
                               {"app_with_args", "spec", "path", "python",
                                "venv_args", "pypackages", "no_cache"},
                               kwargs, outcome)
           IN  IF called_run.returned # "none"
               THEN [called_run EXCEPT !.returned = "1"]
               ELSE called_run
      [] command_name = "install" ->
           ComponentCall("install",
                         {"package_spec", "python", "venv_args", "force",
                          "include_deps", "suffix"}, kwargs, outcome)
      [] command_name = "inject" ->
           ComponentCall("inject",
                         {"dependencies", "include_apps", "include_deps",
                          "force"}, kwargs, outcome)
      [] command_name = "uninject" ->
           ComponentCall("uninject", {"dependencies", "leave_deps"},
                         kwargs, outcome)
      [] command_name = "upgrade" ->
           ComponentCall("upgrade", {"include_injected", "force"},
                         kwargs, outcome)
      [] command_name = "upgrade-all" ->
           ComponentCall("upgrade_all",
                         {"venv_container", "include_injected", "skip_list",
                          "force"}, kwargs, outcome)
      [] command_name = "list" ->
           ComponentCall("list_packages",
                         {"venv_container", "include_injected", "json",
                          "short"}, kwargs, outcome)
      [] command_name = "uninstall" ->
           ComponentCall("uninstall", {}, kwargs, outcome)
      [] command_name = "uninstall-all" ->
           \* line 292 reads the name venv_container, which is neither a
           \* parameter, a local nor a global of main.py
           Raise("NameError")
      [] command_name = "reinstall" ->
           ComponentCall("reinstall", {"python"}, kwargs, outcome)
      [] command_name = "reinstall-all" ->
           ComponentCall("reinstall_all",
                         {"venv_container", "python", "skip_list"},
                         kwargs, outcome)
      [] command_name = "runpip" ->
           IF venv = "None"
           THEN Raise("PipxError")
           ELSE ComponentCall("run_pip", {"package", "pipargs", "verbose"},
                              kwargs, outcome)
      [] command_name = "ensurepath" ->
           LET called_ensure ==
                 ComponentCall("ensure_pipx_paths", {"force"}, kwargs, outcome)
           IN  IF called_ensure.raised \notin {"none", "KeyError"}
               THEN [called_ensure EXCEPT !.raised = "PipxError"]
               ELSE called_ensure
      [] command_name = "completions" ->
           [component |-> "none", calls |-> 0, raised |-> "none",
            returned |-> "0"]
      [] command_name = "environment" ->
           ComponentCall("environment", {"value"}, kwargs, outcome)
      [] OTHER -> Raise("PipxError")

\* run_pipx_command, lines 369-414, on the namespace args: venv_dir is
\* assigned only under `"package" in args`, skip_list only under
\* `"skip" in args`, and the call passes **vars(args) next to the positional
\* arguments.
run_pipx_command(command_name, args, url, outcome) ==
    IF "package" \in args /\ url
    THEN [reached |-> FALSE] @@ Raise("PipxError")
    ELSE IF "package" \notin args \/ "skip" \notin args
    THEN [reached |-> FALSE] @@ Raise("UnboundLocalError")
    ELSE IF (args \cap ParamNames) \cup (args \cap PassedKeywords) # {}
    THEN [reached |-> FALSE] @@ Raise("TypeError")
    ELSE [reached |-> TRUE]
           @@ run_command(command_name, "dir",
                          args \cup PassedKeywords, outcome)

\* _add_install, lines 429-557: the option strings of its add_argument calls,
\* in order, on the one `install` sub-parser.
InstallOptionStrings ==
    <<{"--python", "-p"}, {"--include-deps"}, {"--include-deps-verify"},
      {"--system-site-packages"}, {"--suffix"}, {"--force"}, {"--spec"},
      {"--index", "-i"}, {"--editable", "-e"}, {"--global"}, {"--suffix"},
      {"--suffix"}, {"--suffix"}, {"--interactive"}, {"--specify"},
      {"--site-packages"}, {"--sys-executable", "-s"}, {"--piptarg"},
      {"--verbose", "-v"}>>

\* argparse's add_argument raises ArgumentError for an option string that the
\* parser already has.
ConflictingOptionString(option_strings) ==
    \E j, k \in 1..Len(option_strings) :
        j < k /\ option_strings[j] \cap option_strings[k] # {}

\* get_command_parser, lines 909-946: _add_install is the first sub-parser
\* built; past its add_argument calls it reads the name _run_install, which
\* main.py does not define.
get_command_parser ==
    IF ConflictingOptionString(InstallOptionStrings)
    THEN [raised |-> "ArgumentError"]
    ELSE [raised |-> "NameError"]

\* cli, lines 1093-1101: the body of the try statement after hide_cursor.
CliBody(command_name, url, interrupt, outcome) ==
    IF interrupt
    THEN [reached |-> FALSE] @@ Raise("KeyboardInterrupt")
    ELSE IF get_command_parser.raised # "none"
    THEN [reached |-> FALSE] @@ Raise(get_command_parser.raised)
    ELSE IF command_name = "none"
    THEN [reached |-> FALSE, component |-> "none", calls |-> 0,
          raised |-> "none", returned |-> "1"]
    ELSE run_pipx_command(command_name, Namespace(command_name), url, outcome)

\* A variant without the KeyboardInterrupt clause: the interrupt falls to the
\* last clause and is raised again.
Handler_NoInterruptClause(kind) ==
    CASE kind = "PipxError" ->
           [stderr |-> 1, returned |-> "1", reraised |-> FALSE]
      [] OTHER ->
           [stderr |-> 0, returned |-> "none", reraised |-> TRUE]

\* cli, lines 1102-1111: the except clauses.
Handler(kind) ==
    CASE kind = "PipxError" ->
           [stderr |-> 1, returned |-> "1", reraised |-> FALSE]
      [] kind = "KeyboardInterrupt" ->
           [stderr |-> 0, returned |-> "1", reraised |-> FALSE]
      [] OTHER ->
           [stderr |-> 0, returned |-> "none", reraised |-> TRUE]

\* A call of run_command by itself.
RunCommandCall(command_name, venv, venv_args, outcome) ==
    /\ cli.pc = "idle"
    /\ LET r == run_command(command_name, venv,
                            KwargsOf(command_name, venv_args), outcome)
       IN  cli' = [NoCli EXCEPT !.fn = "run_command",
                                !.command = command_name,
                                !.venv_dir = venv,
                                !.venv_args = venv_args,
                                !.outcome = outcome,
                                !.reached = TRUE,
                                !.component = r.component,
                                !.calls = r.calls,
                                !.raised = r.raised,
                                !.returned = r.returned]
    /\ UNCHANGED <<world, command, locals, history, rap, userpath, ensured,
                   emoji, pipx_paths>>

\* A call of run_pipx_command on the namespace of a parsed command line.
RunPipxCommandCall(command_name, url, outcome) ==
    /\ cli.pc = "idle"
    /\ LET r == run_pipx_command(command_name, Namespace(command_name), url,
                                 outcome)
       IN  cli' = [NoCli EXCEPT !.fn = "run_pipx_command",
                                !.command = command_name,
                                !.url = url,
                                !.outcome = outcome,
                                !.reached = r.reached,
                                !.component = r.component,
                                !.calls = r.calls,
                                !.raised = r.raised,
                                !.returned = r.returned]
    /\ UNCHANGED <<world, command, locals, history, rap, userpath, ensured,
                   emoji, pipx_paths>>

\* cli, lines 1092-1093: the try statement is entered and the cursor hidden.
\* The command line, and whether the user interrupts, are the inputs.
CliEnter(command_name, url, interrupt, outcome) ==
    /\ cli.pc = "idle"
    /\ cli' = [NoCli EXCEPT !.pc = "try", !.fn = "cli",
                            !.command = command_name, !.url = url,
                            !.interrupt = interrupt, !.outcome = outcome,
                            !.cursor = "hidden"]
    /\ UNCHANGED <<world, command, locals, history, rap, userpath, ensured,
                   emoji, pipx_paths>>

\* cli, lines 1094-1101.
CliTry ==
    /\ cli.pc = "try"
    /\ LET r == CliBody(cli.command, cli.url, cli.interrupt, cli.outcome)
       IN  cli' = [cli EXCEPT !.pc = IF r.raised = "none"
                                     THEN "finally" ELSE "except",
                              !.reached = r.reached,
                              !.component = r.component,
                              !.calls = r.calls,
                              !.raised = r.raised,
                              !.returned = r.returned]
    /\ UNCHANGED <<world, command, locals, history, rap, userpath, ensured,
                   emoji, pipx_paths>>

\* cli, lines 1102-1111.
CliExcept ==
    /\ cli.pc = "except"
    /\ LET h == Handler(cli.raised)
       IN  cli' = [cli EXCEPT !.pc = "finally",
                              !.stderr = h.stderr,
                              !.returned = h.returned,
                              !.propagated = h.reraised]
    /\ UNCHANGED <<world, command, locals, history, rap, userpath, ensured,
                   emoji, pipx_paths>>

\* cli, lines 1112-1114: show_cursor, then cli returns or the exception goes
\* on to the caller.
CliFinally ==
    /\ cli.pc = "finally"
    /\ cli' = [cli EXCEPT !.pc = "ended", !.cursor = "shown"]
    /\ UNCHANGED <<world, command, locals, history, rap, userpath, ensured,
                   emoji, pipx_paths>>

\* The process is over; the next one starts afresh.
CliExit ==
    /\ cli.pc = "ended"
    /\ cli' = NoCli
    /\ UNCHANGED <<world, command, locals, history, rap, userpath, ensured,
                   emoji, pipx_paths>>

InitCli == Quiescent /\ AsideIdle

NextCli ==
    \/ \E command_name \in Commands, venv \in {"None", "dir"},
          venv_args \in BOOLEAN, outcome \in ComponentOutcomes :
            RunCommandCall(command_name, venv, venv_args, outcome)
    \/ \E command_name \in RegisteredCommands, url \in BOOLEAN,
          outcome \in ComponentOutcomes :
            RunPipxCommandCall(command_name, url, outcome)
    \/ \E command_name \in RegisteredCommands \cup {"none"}, url \in BOOLEAN,
          interrupt \in BOOLEAN, outcome \in ComponentOutcomes :
            CliEnter(command_name, url, interrupt, outcome)
    \/ CliTry
    \/ CliExcept
    \/ CliFinally
    \/ CliExit

SpecCli == InitCli /\ [][NextCli]_vars

\* ------------------------------------------------------------ ensure_path.py

\* The directories ensure_pipx_paths passes, LOCAL_BIN_DIR and the bin
\* directory of a `pip --user` pipx, and one more that another caller passes.
Locations == {"LOCAL_BIN_DIR", "user_bin", "elsewhere"}

\* userpath.in_current_path: the location is on this shell's PATH.
in_current_path(up, location) == location \in up.current

\* userpath.need_shell_restart: the location is on the PATH a new shell will
\* have and not on this shell's.
need_shell_restart(up, location) ==
    location \notin up.current /\ location \in up.new

\* userpath.append: the location is put on the PATH of new shells.
append(up, location) == [up EXCEPT !.new = @ \cup {location}]

\* _add_location_to_path, lines 55-65.
add_location_to_path(up, location) ==
    LET after == append(up, location)
    IN  [userpath |-> after, appended |-> <<location>>, message |-> "added",
         path_added |-> TRUE,
         need_shell_restart |-> need_shell_restart(after, location)]

\* A variant that appends whenever the location is not on this shell's PATH.
ShouldAppend_IgnoresRestart(force, in_current, restart) ==
    force \/ ~in_current

\* ensure_path, line 45.
ShouldAppend(force, in_current, restart) ==
    force \/ (~in_current /\ ~restart)

\* ensure_path, lines 29-52.
ensure_path(up, location, force) ==
    LET restart == need_shell_restart(up, location)
        in_current == in_current_path(up, location)
    IN  IF ShouldAppend(force, in_current, restart)
        THEN add_location_to_path(up, location)
        ELSE [userpath |-> up, appended |-> <<>>,
              message |-> IF ~in_current /\ restart
                          THEN "restart" ELSE "already",
              path_added |-> FALSE, need_shell_restart |-> restart]

EnsurePathCall(location, force) ==
    /\ LET r == ensure_path(userpath, location, force)
       IN  /\ userpath' = r.userpath
           /\ ensured' = [calls |-> 1, location |-> location, force |-> force,
                          before |-> userpath, appended |-> r.appended,
                          message |-> r.message,
                          path_added |-> r.path_added,
                          need_shell_restart |-> r.need_shell_restart]
    /\ UNCHANGED <<world, command, locals, history, rap, cli, emoji,
                   pipx_paths>>

\* get_pipx_user_bin_path, lines 85-117: None, or the directory of the pipx
\* script of a `pip --user` installation, which may be LOCAL_BIN_DIR itself.
UserBinPaths == {"None", "user_bin", "LOCAL_BIN_DIR"}

\* ensure_pipx_paths, lines 122-126: the set of bin directories.
BinPaths(pipx_user_bin_path) ==
    {"LOCAL_BIN_DIR"} \cup (IF pipx_user_bin_path # "None"
                            THEN {pipx_user_bin_path} ELSE {})

\* The orders in which a for loop may go over a set.
Orders(set) ==
    {order \in [1..Cardinality(set) -> set] :
        \A j, k \in 1..Len(order) : j # k => order[j] # order[k]}

\* A variant that keeps the result of the latest directory only.
OrAssign_Overwrite(accumulated, current) == current

\* ensure_pipx_paths, lines 134-135: `|=`.
OrAssign(accumulated, current) == accumulated \/ current

\* ensure_pipx_paths, lines 128-135: the loop over the bin directories.
RECURSIVE EnsureEach(_, _, _)
EnsureEach(order, force, loop) ==
    IF order = <<>>
    THEN loop
    ELSE LET bin_path == Head(order)
             r == ensure_path(loop.userpath, bin_path, force)
         IN  EnsureEach(Tail(order), force,
                 [userpath |-> r.userpath,
                  results |-> Append(loop.results,
                      [location |-> bin_path, before |-> loop.userpath,
                       appended |-> r.appended, message |-> r.message,
                       path_added |-> r.path_added,
                       need_shell_restart |-> r.need_shell_restart]),
                  path_added |-> OrAssign(loop.path_added, r.path_added),
                  need_shell_restart |->
                      OrAssign(loop.need_shell_restart,
                               r.need_shell_restart)])

\* ensure_pipx_paths, lines 139-173: what is printed after the loop.
Messages(path_added, restart) ==
    (IF path_added THEN {"completions"}
     ELSE IF ~restart THEN {"all added"} ELSE {})
    \cup (IF restart THEN {"restart"} ELSE {})
    \cup {"ready"}

\* ensure_pipx_paths, lines 120-175, going over bin_paths in the given order.
ensure_pipx_paths(up, force, order) ==
    LET loop == EnsureEach(order, force,
                    [userpath |-> up, results |-> <<>>,
                     path_added |-> FALSE, need_shell_restart |-> FALSE])
    IN  [userpath |-> loop.userpath, results |-> loop.results,
         path_added |-> loop.path_added,
         need_shell_restart |-> loop.need_shell_restart,
         messages |-> Messages(loop.path_added, loop.need_shell_restart),
         returned |-> EXIT_CODE_OK]

\* A call of ensure_pipx_paths; ensured keeps the last ensure_path call it
\* made.
EnsurePipxPathsCall(force, pipx_user_bin_path) ==
    /\ \E order \in Orders(BinPaths(pipx_user_bin_path)) :
        LET r == ensure_pipx_paths(userpath, force, order)
            last == r.results[Len(r.results)]
        IN  /\ userpath' = r.userpath
            /\ ensured' = [calls |-> 1, location |-> last.location,
                           force |-> force, before |-> last.before,
                           appended |-> last.appended,
                           message |-> last.message,
                           path_added |-> last.path_added,
                           need_shell_restart |-> last.need_shell_restart]
            /\ pipx_paths' = [calls |-> 1, force |-> force,
                              pipx_user_bin_path |-> pipx_user_bin_path,
                              before |-> userpath, results |-> r.results,
                              path_added |-> r.path_added,
                              need_shell_restart |-> r.need_shell_restart,
                              messages |-> r.messages,
                              returned |-> r.returned]
    /\ UNCHANGED <<world, command, locals, history, rap, cli, emoji>>

\* Every PATH of this shell and of a new one.
InitEnsurePath ==
    /\ Quiescent
    /\ cli = NoCli /\ emoji = NoEmoji
    /\ ensured = NoEnsured
    /\ pipx_paths = NoPipxPaths
    /\ \E current \in SUBSET Locations, new \in SUBSET Locations :
          userpath = [current |-> current, new |-> new]

NextEnsurePath ==
    \/ \E location \in Locations, force \in BOOLEAN :
        EnsurePathCall(location, force)
    \/ \E force \in BOOLEAN, pipx_user_bin_path \in UserBinPaths :
        EnsurePipxPathsCall(force, pipx_user_bin_path)

SpecEnsurePath == InitEnsurePath /\ [][NextEnsurePath]_vars

\* ------------------------------------------------------------------ emojis.py

Unset == <<"unset">>

\* The values of USE_EMOJI tried, as sequences of characters.
EnvValues ==
    {<<>>, <<"y">>, <<"Y">>, <<"y", "e", "s">>, <<"Y", "E", "S">>, <<"t">>,
     <<"T", "r", "u", "e">>, <<"T", "R", "U", "E">>, <<"o", "n">>, <<"1">>,
     <<"n">>, <<"N", "o">>, <<"f">>, <<"f", "a", "l", "s", "e">>,
     <<"F", "a", "l", "s", "e">>, <<"O", "F", "F">>, <<"0">>,
     <<"m", "a", "y", "b", "e">>, <<"2">>, <<"j", "a">>,
     <<"y", "e", "s", "!">>, <<" ", "1">>}

Encodings == {"utf-8", "utf-16", "ascii", "latin-1"}

LowerChar(c) ==
    CASE c = "A" -> "a"
      [] c = "B" -> "b"
      [] c = "E" -> "e"
      [] c = "F" -> "f"
      [] c = "J" -> "j"
      [] c = "L" -> "l"
      [] c = "M" -> "m"
      [] c = "N" -> "n"
      [] c = "O" -> "o"
      [] c = "R" -> "r"
      [] c = "S" -> "s"
      [] c = "T" -> "t"
      [] c = "U" -> "u"
      [] c = "Y" -> "y"
      [] OTHER -> c

\* str.lower
str_lower(val) == [k \in 1..Len(val) |-> LowerChar(val[k])]

\* strtobool, lines 26-27.
true_values ==
    {<<"y">>, <<"y", "e", "s">>, <<"t">>, <<"t", "r", "u", "e">>,
     <<"o", "n">>, <<"1">>}

false_values ==
    {<<"n">>, <<"n", "o">>, <<"f">>, <<"f", "a", "l", "s", "e">>,
     <<"o", "f", "f">>, <<"0">>}

\* strtobool, lines 6-33.
strtobool(val) ==
    LET lowered == str_lower(val)
    IN  IF lowered \in true_values THEN TRUE
        ELSE IF lowered \in false_values THEN FALSE
        ELSE FALSE

\* str(bool)
PyStr(b) == IF b THEN <<"T", "r", "u", "e">> ELSE <<"F", "a", "l", "s", "e">>

BoolName(b) == IF b THEN "True" ELSE "False"

\* emoji_test_str.encode(sys.stderr.encoding), line 81: the string holds
\* characters outside ASCII and Latin-1.
CanEncode(encoding) == encoding \in {"utf-8", "utf-16"}

\* check_platform_emoji_support, lines 61-86: the UnicodeEncodeError is
\* raised again, False is never returned.
check_platform_emoji_support(encoding) ==
    IF CanEncode(encoding)
    THEN [raised |-> "none", returned |-> TRUE]
    ELSE [raised |-> "UnicodeEncodeError", returned |-> FALSE]

\* os.getenv(name, default)
getenv(value, default) == IF value = Unset THEN default ELSE value

\* use_emojis, lines 56-58.
use_emojis(USE_EMOJI, encoding) ==
    LET platform_emoji_support == check_platform_emoji_support(encoding)
    IN  IF platform_emoji_support.raised # "none"
        THEN [raised |-> platform_emoji_support.raised, returned |-> "none"]
        ELSE [raised |-> "none",
              returned |->
                BoolName(strtobool(
                    getenv(USE_EMOJI,
                           PyStr(platform_emoji_support.returned))))]

UseEmojisCall ==
    /\ LET r == use_emojis(emoji.USE_EMOJI, emoji.encoding)
       IN  emoji' = [emoji EXCEPT !.fn = "use_emojis", !.val = <<>>,
                                  !.raised = r.raised,
                                  !.returned = r.returned]
    /\ UNCHANGED <<world, command, locals, history, rap, cli, userpath,
                   ensured, pipx_paths>>

StrtoboolCall(val) ==
    /\ emoji' = [emoji EXCEPT !.fn = "strtobool", !.val = val,
                              !.raised = "none",
                              !.returned = BoolName(strtobool(val))]
    /\ UNCHANGED <<world, command, locals, history, rap, cli, userpath,
                   ensured, pipx_paths>>

\* Every USE_EMOJI, set or not, and every encoding of the error stream.
InitEmoji ==
    /\ Quiescent
    /\ cli = NoCli /\ userpath = NoUserpath /\ ensured = NoEnsured
    /\ pipx_paths = NoPipxPaths
    /\ \E value \in EnvValues \cup {Unset}, encoding \in Encodings :
          emoji = [NoEmoji EXCEPT !.USE_EMOJI = value,
                                  !.encoding = encoding]

NextEmoji ==
    \/ UseEmojisCall
    \/ \E val \in EnvValues : StrtoboolCall(val)

SpecEmoji == InitEmoji /\ [][NextEmoji]_vars

\* ------------------------------------------------------------ the properties

\* The latest uninject_dep call has returned: its target, its result, and the
\* uninstall_package calls it made.
CallReturned == pc \in {"loop", "done"} /\ raised = "none" /\ Len(results) >= 1
LastTarget == canonicalize_name(dependencies[Len(results)])
LastResult == results[Len(results)]
CallLog == SubSeq(uninstall_log, call_pre.nlog + 1, Len(uninstall_log))

\* A call of uninject_dep has begun in the running command.
CallBegun == pc # "idle" /\ Len(called) >= 1

\* The installed packages, other than L, that require L.
Requirers(L, inst) == {q \in inst \ {L} : L \in requires[q]}

NothingChanged ==
    /\ CallLog = <<>>
    /\ installed = call_pre.installed
    /\ main_package = call_pre.main_package
    /\ injected_packages = call_pre.injected_packages
    /\ local_bin = call_pre.local_bin

\* C1: a call of uninject_dep whose target canonicalizes to the main package's
\* name returns False, calls no uninstall, and leaves the installed packages,
\* the metadata and the shared bin directory as they were.
C1_MainPackageRejected ==
    (CallReturned /\ LastTarget = call_pre.main_package.package)
        => (LastResult = FALSE /\ NothingChanged)

C1_Witness ==
    /\ CallReturned
    /\ dependencies[Len(results)] = <<"M">>
    /\ main_package.package = MainPkg
    /\ PkgA \in DOMAIN injected_packages
    /\ LastResult = FALSE

\* C2: a call of uninject_dep whose target is neither the main package nor a
\* key of injected_packages returns False, calls no uninstall, removes no
\* shared-bin path and leaves the metadata record as it was.
C2_AbsentPackageSkipped ==
    (/\ CallReturned
     /\ LastTarget # call_pre.main_package.package
     /\ LastTarget \notin DOMAIN call_pre.injected_packages)
        => (LastResult = FALSE /\ NothingChanged)

C2_Witness ==
    /\ CallReturned
    /\ LastTarget = LibL
    /\ LibL \in installed
    /\ LastResult = FALSE

\* C3: when uninject_dep(A, leave_deps=False) returns True, A is neither
\* installed nor a key of injected_packages, and neither is installed any
\* library that was not injected and that A alone required before the call.
C3_TransitiveCleanup ==
    (CallReturned /\ LastResult /\ ~leave_deps)
        => /\ LastTarget \notin installed
           /\ LastTarget \notin DOMAIN injected_packages
           /\ \A L \in call_pre.installed :
                (/\ L \notin DOMAIN call_pre.injected_packages
                 /\ L # call_pre.main_package.package
                 /\ Requirers(L, call_pre.installed) = {LastTarget})
                    => L \notin installed

C3_Witness ==
    /\ CallReturned /\ LastResult /\ ~leave_deps
    /\ LastTarget = PkgA
    /\ LibL \in call_pre.installed
    /\ Requirers(LibL, call_pre.installed) = {PkgA}
    /\ LibL \notin installed
    /\ PkgA \notin installed

\* C4: with leave_deps=True a call of uninject_dep takes no leaf-set snapshot,
\* calls uninstall for its target only, and every other package installed
\* before the call stays installed.
C4_LeaveDeps ==
    (CallBegun /\ leave_deps)
        => /\ snapshots = 0
           /\ Len(CallLog) <= 1
           /\ \A k \in 1..Len(CallLog) :
                CallLog[k].package = package_name /\ CallLog[k].was_injected
           /\ call_pre.installed \ {package_name} \subseteq installed

C4_Witness ==
    /\ CallReturned /\ LastResult /\ leave_deps
    /\ LastTarget = PkgA
    /\ LibL \in requires[PkgA]
    /\ LibL \in installed
    /\ Requirers(LibL, installed) = {}

\* C5: a call of uninject_dep uninstalls, besides its target, no package that
\* a package still installed after the target's removal requires.
C5_SiblingSafety ==
    CallBegun
        => \A L \in call_pre.installed \ (installed \cup {package_name}) :
              Requirers(L, call_pre.installed \ {package_name}) = {}

C5_Witness ==
    /\ CallReturned /\ LastResult /\ ~leave_deps
    /\ LastTarget = PkgA
    /\ LibL \in requires[PkgA] \cap requires[PkgB]
    /\ LibL2 \in requires[LibL]
    /\ {PkgB, LibL, LibL2} \subseteq installed

\* C6: when uninject returns for a list of two targets of which one was a key
\* of injected_packages and the other was not, in either order, it returns
\* EXIT_CODE_UNINJECT_ERROR and the injected one is neither installed nor a key
\* of injected_packages.
C6_MultiTargetAggregation ==
    (pc = "done" /\ raised = "none" /\ Len(dependencies) = 2)
        => \A k \in 1..2 :
              LET A == canonicalize_name(dependencies[k])
                  B == canonicalize_name(dependencies[3 - k])
              IN  (/\ A \in DOMAIN cmd_pre.injected_packages
                   /\ B \notin DOMAIN cmd_pre.injected_packages)
                     => /\ exit_code = EXIT_CODE_UNINJECT_ERROR
                        /\ A \notin installed
                        /\ A \notin DOMAIN injected_packages

C6_Witness ==
    /\ pc = "done" /\ raised = "none"
    /\ dependencies = <<LibL, PkgA>>
    /\ PkgA \in cmd_pre.installed
    /\ PkgA \in DOMAIN cmd_pre.injected_packages
    /\ PkgA \notin installed
    /\ exit_code = EXIT_CODE_UNINJECT_ERROR

\* C7: when the installer fails while one target of a multi-package uninject
\* is uninstalled, the later targets are still processed and uninject returns
\* an exit status.
C7_FailureIsolation ==
    (/\ pc = "done"
     /\ Len(dependencies) >= 2
     /\ \E k \in 1..Len(uninstall_log) : ~uninstall_log[k].ok)
        => /\ exit_code \in {EXIT_CODE_OK, EXIT_CODE_UNINJECT_ERROR}
           /\ called = dependencies

\* C8: when uninject returns, uninject_dep has been called once per element of
\* the list, in list order, and the exit code is EXIT_CODE_OK if every call
\* returned True and EXIT_CODE_UNINJECT_ERROR otherwise.
C8_ExitCode ==
    (pc = "done" /\ raised = "none")
        => /\ called = dependencies
           /\ Len(results) = Len(dependencies)
           /\ exit_code =
                IF \A k \in 1..Len(results) : results[k]
                THEN EXIT_CODE_OK
                ELSE EXIT_CODE_UNINJECT_ERROR

C8_Witness ==
    /\ pc = "done" /\ raised = "none"
    /\ Len(dependencies) = 2
    /\ results = <<FALSE, TRUE>>
    /\ exit_code = EXIT_CODE_UNINJECT_ERROR

\* C9: a call of uninject_dep removes no shared-bin path whose name is not in
\* the apps list recorded for its target.
C9_AppPathSafety ==
    CallBegun
        => \A app_path \in call_pre.local_bin \ local_bin :
              /\ package_name \in DOMAIN call_pre.injected_packages
              /\ app_path \in call_pre.injected_packages[package_name].apps

\* X = PkgA owns `tool`, Y = PkgB owns `tool2` and has a stray `tool` in its
\* files; X is uninjected and `tool2` is still there.
C9_Witness ==
    /\ CallReturned /\ LastResult
    /\ LastTarget = PkgA
    /\ call_pre.injected_packages[PkgA].apps = {"tool"}
    /\ PkgB \in DOMAIN injected_packages
    /\ injected_packages[PkgB].apps = {"tool2"}
    /\ "tool" \in venv_bin[PkgB]
    /\ call_pre.local_bin = {"tool", "tool2"}
    /\ local_bin = {"tool2"}

Range(seq) == {seq[k] : k \in 1..Len(seq)}

\* C10: remove_app_paths raises no error, leaves none of its paths in the
\* shared bin directory, and called again with the same paths changes nothing.
C10_RemoveAppPathsIdempotent ==
    (rap.calls >= 1)
        => /\ rap.raised = "none"
           /\ Range(rap.paths) \cap local_bin = {}
           /\ local_bin = rap.before \ Range(rap.paths)
           /\ (rap.calls = 2 => local_bin = rap.before)

C10_Witness ==
    /\ rap.calls = 2
    /\ Range(rap.paths) \cap rap.first # {}
    /\ Range(rap.paths) \ rap.first # {}
    /\ rap.raised = "none"
    /\ local_bin = rap.before

\* ------------------------------------------- the checks made before the loop

CommandBegun == pc # "idle"

CommandChangedNothing ==
    /\ called = <<>> /\ results = <<>>
    /\ uninstall_log = <<>>
    /\ snapshots = 0
    /\ installed = cmd_pre.installed
    /\ main_package = cmd_pre.main_package
    /\ injected_packages = cmd_pre.injected_packages
    /\ venv_bin = cmd_pre.venv_bin
    /\ local_bin = cmd_pre.local_bin

\* C11: when the environment directory does not exist or is empty, uninject
\* raises the 'does not exist' error, which is not the missing-metadata error,
\* before any target is processed: no call of uninject_dep, no installer call,
\* no change of the metadata and no removal from the shared bin directory.
C11_MissingEnvironment ==
    (CommandBegun /\ venv_dir \in {"missing", "empty"})
        => /\ pc = "done"
           /\ raised = "does not exist"
           /\ raised # "missing metadata"
           /\ exit_code = "none"
           /\ CommandChangedNothing

C11_Witness ==
    /\ pc = "done"
    /\ venv_dir = "empty"
    /\ raised = "does not exist"
    /\ Len(dependencies) = 2
    /\ local_bin = AppNames

\* C12: when the environment exists and its metadata is empty, uninject raises
\* the missing-metadata error before any target is processed, whatever the
\* target list is, and changes nothing.
C12_LegacyEnvironment ==
    (/\ CommandBegun
     /\ venv_dir = "present"
     /\ cmd_pre.main_package.package = None
     /\ cmd_pre.injected_packages = <<>>)
        => /\ pc = "done"
           /\ raised = "missing metadata"
           /\ exit_code = "none"
           /\ CommandChangedNothing

C12_Witness ==
    /\ pc = "done"
    /\ venv_dir = "present"
    /\ raised = "missing metadata"
    /\ Len(dependencies) = 2
    /\ PkgA \in installed

\* C13: in every state that uninject commands reach, the main package's name
\* is not a key of injected_packages, and the main_package entry of the
\* record is what it was when the running command began.
C13_MainPackageUntouched ==
    /\ main_package.package \notin DOMAIN injected_packages
    /\ CommandBegun => main_package = cmd_pre.main_package

\* Both injected packages are uninjected, the main package went with them as
\* an orphan of PkgA, and its record is as it was.
C13_Witness ==
    /\ pc = "done" /\ exit_code = EXIT_CODE_OK
    /\ Len(results) = 2
    /\ DOMAIN injected_packages = {}
    /\ MainPkg \notin installed
    /\ main_package = MainInfo

\* ---------------------------------------------------- the app paths of a call

\* The app paths the target owned when the call began.
OwnedAppPaths(pre, name) ==
    {app_path \in pre.venv_bin[name] :
        app_path \in pre.injected_packages[name].apps}

\* C19: the include_apps flag and the owned app paths of the target are read
\* before its uninstall is invoked, and the paths removed from the shared bin
\* directory at the end of the call are that set as it was before the
\* uninstall.
C19_AppPathsReadBeforeUninstall ==
    /\ pc = "uninstall"
         => /\ CallLog = <<>>
            /\ need_app_uninstall =
                 call_pre.injected_packages[package_name].include_apps
            /\ new_app_paths = OwnedAppPaths(call_pre, package_name)
    /\ (CallReturned /\ LastResult)
         => call_pre.local_bin \ local_bin =
              IF call_pre.injected_packages[LastTarget].include_apps
              THEN OwnedAppPaths(call_pre, LastTarget) \cap call_pre.local_bin
              ELSE {}

\* The target is gone from the venv and from the record, and the path it owned
\* has been removed all the same.
C19_Witness ==
    /\ CallReturned /\ LastResult
    /\ call_pre.injected_packages[LastTarget].include_apps
    /\ call_pre.local_bin \ local_bin # {}
    /\ venv_bin[LastTarget] = {}
    /\ LastTarget \notin DOMAIN injected_packages

\* C20: a call of uninject_dep removes shared-bin entries only if the include_apps
\* flag recorded for its target is true: when it is false every entry that
\* was there before the call is still there, the ones named in the target's
\* apps list too.
C20_IncludeAppsFalseKeepsBin ==
    CallBegun
        => \/ local_bin = call_pre.local_bin
           \/ /\ package_name \in DOMAIN call_pre.injected_packages
              /\ call_pre.injected_packages[package_name].include_apps

C20_Witness ==
    /\ CallReturned /\ LastResult
    /\ ~call_pre.injected_packages[LastTarget].include_apps
    /\ OwnedAppPaths(call_pre, LastTarget) \cap local_bin # {}

\* ------------------------------------------------------------ the dispatch

\* C14: run_command maps every command that get_command_parser registers to
\* one component call and returns that call's exit status, and no such
\* command fails inside run_command before its component is called.
C14_DispatchTable ==
    (cli.fn = "run_command" /\ cli.command \in ClaimedCommands)
        => /\ cli.calls = 1
           /\ cli.raised \notin {"NameError", "KeyError"}
           /\ cli.outcome.returned # "none"
                => cli.returned = cli.outcome.returned

\* C15: for the namespace of every parsed subcommand, whether or not it holds
\* 'package', 'skip' or 'python', run_pipx_command reaches run_command with
\* venv_dir and skip_list defined and returns run_command's exit code. (A
\* package that is a URL is refused before that.)
C15_ReachesRunCommand ==
    (/\ cli.fn = "run_pipx_command"
     /\ ~(cli.url /\ "package" \in Namespace(cli.command)))
        => /\ cli.reached
           /\ cli.raised \notin {"UnboundLocalError", "TypeError"}
           /\ cli.raised = "none" => cli.returned \in {"0", "1"}

\* C16: when an error is raised while cli runs a command, cli ends with a
\* non-zero exit status after printing one explanation to the error stream,
\* and no exception propagates out of cli.
C16_FatalErrorsReported ==
    (/\ cli.fn = "cli" /\ cli.pc = "ended"
     /\ cli.raised \notin {"none", "KeyboardInterrupt"})
        => /\ ~cli.propagated
           /\ cli.returned \notin {"none", "0"}
           /\ cli.stderr = 1

\* ------------------------------------------------------------ PATH and emojis

\* C17: ensure_path appends the location to the user's PATH exactly when
\* force is true or the location is neither on the current PATH nor waiting
\* for a shell restart; otherwise it changes no PATH and returns
\* path_added = False with need_shell_restart as it was before the decision.
C17_EnsurePathDecision ==
    ensured.calls > 0
        => LET location == ensured.location
               in_current == location \in ensured.before.current
               restart == ~in_current /\ location \in ensured.before.new
               adds == ensured.force \/ (~in_current /\ ~restart)
           IN  /\ ensured.appended = IF adds THEN <<location>> ELSE <<>>
               /\ ~adds => /\ userpath = ensured.before
                           /\ ~ensured.path_added
                           /\ ensured.need_shell_restart = restart

\* The location waits for a shell restart and force is off: nothing is
\* appended.
C17_Witness ==
    /\ ensured.calls > 0
    /\ ~ensured.force
    /\ ensured.location \notin ensured.before.current
    /\ ensured.location \in ensured.before.new
    /\ ensured.appended = <<>>
    /\ ensured.need_shell_restart

\* C18: use_emojis returns False without raising when USE_EMOJI is unset or
\* empty and the error stream's encoding cannot encode the emoji test string;
\* strtobool yields False for every value it does not recognise.
C18_UseEmojisFallsBack ==
    /\ (/\ emoji.fn = "use_emojis"
        /\ emoji.USE_EMOJI \in {Unset, <<>>}
        /\ ~CanEncode(emoji.encoding))
          => emoji.raised = "none" /\ emoji.returned = "False"
    /\ (/\ emoji.fn = "strtobool"
        /\ str_lower(emoji.val) \notin true_values \cup false_values)
          => emoji.raised = "none" /\ emoji.returned = "False"

\* The orphans of a call of uninject_dep: the packages in the leaf set taken
\* after the target's uninstall that were not in the one taken before it.
Orphans ==
    DepsOfUninstalled(
        NewNotRequiredPackages(call_pre.installed \ {package_name}),
        OrigNotRequiredPackages(call_pre.installed))

\* C21: a call of uninject_dep with leave_deps=False that gets past the early
\* returns takes the first leaf-set snapshot before any uninstall, then
\* uninstalls its target with was_injected=True, then takes the second
\* snapshot, then uninstalls with was_injected=False, once each, the names of
\* (second snapshot minus first) and no other name; from the target's removal
\* on, the keys of injected_packages are those before the call less the target.
C21_OrderedCleanup ==
    (CallBegun /\ ~leave_deps /\ snapshots >= 1)
        => /\ snapshots \in {1, 2}
           /\ snapshots = 1
                => /\ Len(CallLog) <= 1
                   /\ \A k \in 1..Len(CallLog) :
                        CallLog[k] = LogEntry(package_name, TRUE, FALSE)
                   /\ injected_packages = call_pre.injected_packages
           /\ snapshots = 2
                => /\ Len(CallLog) >= 1
                   /\ CallLog[1] = LogEntry(package_name, TRUE, TRUE)
                   /\ \A k \in 2..Len(CallLog) :
                        /\ ~CallLog[k].was_injected
                        /\ CallLog[k].package \in Orphans
                        /\ \A j \in 2..(k - 1) :
                             CallLog[j].package # CallLog[k].package
                   /\ DOMAIN injected_packages =
                        DOMAIN call_pre.injected_packages \ {package_name}
           /\ (snapshots = 2 /\ pc \in {"apps", "loop"})
                => {CallLog[k].package : k \in 2..Len(CallLog)} = Orphans

C21_Witness ==
    /\ CallReturned /\ LastResult /\ ~leave_deps
    /\ LastTarget = PkgA
    /\ snapshots = 2
    /\ Len(CallLog) = 3
    /\ CallLog[2].package # CallLog[3].package
    /\ PkgB \in DOMAIN injected_packages

\* C22: from hide_cursor until the finally clause of cli the cursor is hidden,
\* and when cli has ended, by a return or by an exception going on to its
\* caller, show_cursor has been called; when the user interrupted the command,
\* cli returned exit status 1 and no exception went on to the caller.
C22_CursorRestored ==
    cli.fn = "cli"
        => /\ cli.pc \in {"try", "except", "finally"} => cli.cursor = "hidden"
           /\ cli.pc = "ended"
                => /\ cli.cursor = "shown"
                   /\ cli.raised = "KeyboardInterrupt"
                        => cli.returned = "1" /\ ~cli.propagated

C22_Witness ==
    /\ cli.fn = "cli" /\ cli.pc = "ended"
    /\ cli.interrupt
    /\ cli.raised = "KeyboardInterrupt"
    /\ cli.cursor = "shown"
    /\ cli.returned = "1"

\* C23: a call of ensure_pipx_paths calls ensure_path once for each distinct
\* bin directory and for nothing else, returns EXIT_CODE_OK, reports
\* path_added and need_shell_restart as the disjunction of what ensure_path
\* returned for the directories, and prints the "All pipx binary directories
\* have been added to PATH" warning exactly when every ensure_path call
\* returned (False, False).
C23_EnsurePipxPaths ==
    pipx_paths.calls > 0
        => LET results_all == pipx_paths.results
               each == 1..Len(results_all)
               directories ==
                   {"LOCAL_BIN_DIR"} \cup
                       ({pipx_paths.pipx_user_bin_path} \ {"None"})
           IN  /\ Len(results_all) = Cardinality(directories)
               /\ {results_all[k].location : k \in each} = directories
               /\ pipx_paths.returned = EXIT_CODE_OK
               /\ pipx_paths.path_added
                    <=> \E k \in each : results_all[k].path_added
               /\ pipx_paths.need_shell_restart
                    <=> \E k \in each : results_all[k].need_shell_restart
               /\ "all added" \in pipx_paths.messages
                    <=> \A k \in each :
                          /\ ~results_all[k].path_added
                          /\ ~results_all[k].need_shell_restart

\* Two directories, the first added and the second already on the PATH.
C23_Witness ==
    /\ pipx_paths.calls > 0
    /\ Len(pipx_paths.results) = 2
    /\ pipx_paths.results[1].path_added
    /\ ~pipx_paths.results[2].path_added
    /\ ~pipx_paths.results[2].need_shell_restart
    /\ pipx_paths.path_added
    /\ "all added" \notin pipx_paths.messages

\* The package a target string names: the string up to its version
\* qualifier, in canonical form.
VersionChars == {"=", "<", ">", "!", "~"}
NamedPackage(target) ==
    LET qualifier == {k \in 1..Len(target) : target[k] \in VersionChars}
        end == IF qualifier = {} THEN Len(target)
               ELSE (CHOOSE k \in qualifier : \A j \in qualifier : k <= j) - 1
    IN  canonicalize_name(SubSeq(target, 1, end))

\* C24: a call of uninject_dep ends as the call with the canonical name of
\* the package its target string names ends from the same state: it returns
\* False exactly when that package is the main package or is not a key of
\* injected_packages, and otherwise that package is no longer installed nor
\* recorded.
C24_SpellingIndependent ==
    CallReturned
        => LET package == NamedPackage(dependencies[Len(results)])
               refused ==
                   \/ package = call_pre.main_package.package
                   \/ package \notin DOMAIN call_pre.injected_packages
           IN  /\ LastResult = ~refused
               /\ LastResult
                    => /\ package \notin installed
                       /\ package \notin DOMAIN injected_packages

\* C25: in every state that uninject commands reach, the main package that
\* the record of an existing environment names is installed.
C25_MainPackageStaysInstalled ==
    (venv_dir = "present" /\ main_package.package = MainPkg)
        => MainPkg \in installed

\* C26: in every state that uninject commands reach, every key of
\* injected_packages is an installed package.
C26_InjectedAreInstalled == DOMAIN injected_packages \subseteq installed

\* C27: when uninject_dep(A, leave_deps=False) returns True it has taken two
\* leaf-set snapshots and no more, and the packages it uninstalled besides A
\* are exactly those that A alone required before the call: a package that
\* only an uninstalled orphan required stays installed.
C27_SinglePass ==
    (CallReturned /\ LastResult /\ ~leave_deps)
        => /\ snapshots = 2
           /\ \A q \in call_pre.installed \ {LastTarget} :
                q \notin installed
                    <=> Requirers(q, call_pre.installed) = {LastTarget}

\* The chain A requires L requires L2: L is gone, L2 stays and nothing
\* requires it any more.
C27_Witness ==
    /\ CallReturned /\ LastResult /\ ~leave_deps
    /\ LastTarget = PkgA
    /\ Requirers(LibL, call_pre.installed) = {PkgA}
    /\ Requirers(LibL2, call_pre.installed) = {LibL}
    /\ LibL \notin installed
    /\ LibL2 \in installed
    /\ Requirers(LibL2, installed) = {}

C29_NoHalfRemoval ==
    (/\ CallBegun /\ pc \in {"loop", "done"}
     /\ package_name \in DOMAIN call_pre.injected_packages
     /\ package_name \notin DOMAIN injected_packages
     /\ call_pre.injected_packages[package_name].include_apps)
        => OwnedAppPaths(call_pre, package_name) \cap local_bin = {}

\* C30: when an uninject command has returned, a target that names the same
\* package as an earlier target of the list got False; and when that package
\* was injected as the command began, its first occurrence got True, the
\* command returned EXIT_CODE_UNINJECT_ERROR, the package is no longer a key
\* of injected_packages and it was uninstalled as an injected package once.
C30_RepeatedTarget ==
    (pc = "done" /\ raised = "none" /\ exit_code # "none")
        => \A j, k \in 1..Len(dependencies) :
             (j < k /\ canonicalize_name(dependencies[j])
                        = canonicalize_name(dependencies[k]))
                => LET package == canonicalize_name(dependencies[k])
                       first == CHOOSE n \in 1..j :
                           /\ canonicalize_name(dependencies[n]) = package
                           /\ \A m \in 1..(n - 1) :
                                canonicalize_name(dependencies[m]) # package
                   IN  /\ results[k] = FALSE
                       /\ package \in DOMAIN cmd_pre.injected_packages
                            => /\ results[first] = TRUE
                               /\ exit_code = EXIT_CODE_UNINJECT_ERROR
                               /\ package \notin DOMAIN injected_packages
                               /\ Cardinality(
                                    {n \in 1..Len(uninstall_log) :
                                        uninstall_log[n] =
                                            LogEntry(package, TRUE, TRUE)}) = 1

\* The same injected package twice, in two spellings.
C30_Witness ==
    /\ pc = "done" /\ raised = "none"
    /\ dependencies = <<PkgB, <<"B", "_", ".", "x">> >>
    /\ PkgB \in DOMAIN cmd_pre.injected_packages
    /\ results = <<TRUE, FALSE>>
    /\ exit_code = EXIT_CODE_UNINJECT_ERROR

====
